---- MODULE Spec2Model ----
(***************************************************************************)
(* Model of package pressurecooker: the eviction candidate scoring and     *)
(* selection of evict_selection.go and the Watcher constructor.            *)
(*                                                                         *)
(* Representation of time.  A time.Duration is an int64 count of           *)
(* nanoseconds (about +-9.22e9 s), which is beyond TLC's integers, so an   *)
(* instant or a duration is a record [ks, ms] that stands for              *)
(* ks * 10^6 + ms milliseconds with 0 <= ms < 10^6 (ks may be negative).   *)
(* A whole number of seconds (the int64 age) is a record [k, s] that       *)
(* stands for k * 1000 + s seconds with 0 <= s < 1000.                     *)
(***************************************************************************)
EXTENDS Integers, Sequences, FiniteSets, TLC

VARIABLES
    items,       \* l.Items: the pods of the PodList the candidate set points into
    s,           \* the PodCandidateSet: a sequence of [Pod, Score], Pod an index of items
    now,         \* the value time.Now() returned to the last scoreByAge
    minPodAge,   \* the minPodAge argument of the last scoreByAge
    result,      \* the *v1.Pod the last SelectPodForEviction returned (NilPod: nil)
    calls,       \* number of SelectPodForEviction calls on the current set
    first,       \* <<>> or <<[now, min, result]>>: the first call on the current set
    sameArgs,    \* every call on the current set had the clock and minPodAge of the first
    applied,     \* the scoring passes applied one by one to the current set
    wReq,        \* <<>> or <<t>>: the pressureThreshold argument of the last NewWatcher
    fsErr,       \* the error procfs.NewDefaultFS returned to the last NewWatcher
    watcher,     \* <<>> (nil) or <<w>>: the *Watcher the last NewWatcher returned
    wErr         \* the error the last NewWatcher returned ("" is nil)

vars == <<items, s, now, minPodAge, result, calls, first, sameArgs, applied,
          wReq, fsErr, watcher, wErr>>

selVars == <<items, s, now, minPodAge, result, calls, first, sameArgs, applied>>
watchVars == <<wReq, fsErr, watcher, wErr>>

-----------------------------------------------------------------------------
(* Bounds of the model *)

MaxPods == 3
MaxCalls == 2
MaxOwners == 100
MaxThreshold == 60

-----------------------------------------------------------------------------
(* Program constants *)

VetoDelta == 10000
NoOwnerDelta == 1000
BonusDelta == 100
DefaultThreshold == 25
TickerSeconds == 15

NilPod == 0
CriticalPodAnnotation == "scheduler.alpha.kubernetes.io/critical-pod"

-----------------------------------------------------------------------------
(* time.Time, time.Duration *)

Norm(ks, ms) == [ks |-> ks + (ms \div 1000000), ms |-> ms % 1000000]

DLess(a, b) == a.ks < b.ks \/ (a.ks = b.ks /\ a.ms < b.ms)

MaxDuration == [ks |-> 9223372, ms |-> 36854]
MinDuration == [ks |-> -9223373, ms |-> 963145]

Seconds(n) == Norm(0, n * 1000)

Sub(t, u) ==
    LET d == Norm(t.ks - u.ks, t.ms - u.ms)
    IN  IF DLess(MaxDuration, d) THEN MaxDuration
        ELSE IF DLess(d, MinDuration) THEN MinDuration
        ELSE d

Add(t, d) == Norm(t.ks + d.ks, t.ms + d.ms)

NormSec(k, sec) == [k |-> k + (sec \div 1000), s |-> sec % 1000]

SecLess(a, b) == a.k < b.k \/ (a.k = b.k /\ a.s < b.s)

\* int64(delta / time.Second): the quotient truncated toward zero
DivSecond(d) ==
    IF d.ks >= 0
    THEN [k |-> d.ks, s |-> d.ms \div 1000]
    ELSE LET n == Norm(-d.ks, -d.ms)
         IN  NormSec(-n.ks, -(n.ms \div 1000))

\* floor(e^j) for j >= 1: floor(log1p(a)) >= j iff a >= floor(e^j), a an integer
ExpFloor ==
    <<[k |-> 0, s |-> 2], [k |-> 0, s |-> 7], [k |-> 0, s |-> 20],
      [k |-> 0, s |-> 54], [k |-> 0, s |-> 148], [k |-> 0, s |-> 403],
      [k |-> 1, s |-> 96], [k |-> 2, s |-> 980], [k |-> 8, s |-> 103],
      [k |-> 22, s |-> 26], [k |-> 59, s |-> 874], [k |-> 162, s |-> 754],
      [k |-> 442, s |-> 413], [k |-> 1202, s |-> 604], [k |-> 3269, s |-> 17],
      [k |-> 8886, s |-> 110], [k |-> 24154, s |-> 952], [k |-> 65659, s |-> 969],
      [k |-> 178482, s |-> 300], [k |-> 485165, s |-> 195],
      [k |-> 1318815, s |-> 734], [k |-> 3584912, s |-> 846],
      [k |-> 9744803, s |-> 446]>>

\* int(math.Floor(math.Log1p(float64(age)))) for age >= 0
Log1pFloor(age) == Cardinality({j \in DOMAIN ExpFloor : ~SecLess(age, ExpFloor[j])})

-----------------------------------------------------------------------------
(* The inputs: clock readings, minPodAge arguments, pods, pod lists *)

Now0 == [ks |-> 63900000, ms |-> 0]
Now1 == Add(Now0, Seconds(60))
ZeroTime == [ks |-> 0, ms |-> 0]

Clock == {Now0, Now1}

MinPodAges == {Seconds(0), Seconds(30), Seconds(-10)}

\* the instant n seconds before Now0
Ago(n) == Add(Now0, Seconds(-n))

StartTimes ==
    {<<>>, <<ZeroTime>>, <<Ago(3600)>>, <<Ago(1)>>,
     <<Add(Now0, [ks |-> -1, ms |-> 999500])>>, <<Add(Now0, Seconds(5))>>}

QOSClasses == {"Guaranteed", "Burstable", "BestEffort"}

Rep(kind, n) == [i \in 1..n |-> kind]

OwnerLists ==
    {<<>>, <<"ReplicaSet">>, <<"Job">>, <<"StatefulSet">>, <<"DaemonSet">>,
     <<"StatefulSet", "ReplicaSet">>,
     Rep("ReplicaSet", MaxOwners - 1) \o <<"DaemonSet">>,
     Rep("ReplicaSet", MaxOwners)}

Namespaces == {"default", "kube-system"}

PriorityClassNames == {"", "system-cluster-critical", "system-node-critical"}

NoAnnotations == [a \in {} |-> ""]

AnnotationMaps == {NoAnnotations, [a \in {CriticalPodAnnotation} |-> ""]}

AllPods ==
    [Namespace : Namespaces, QOSClass : QOSClasses, StartTime : StartTimes,
     OwnerReferences : OwnerLists, PriorityClassName : PriorityClassNames,
     Annotations : AnnotationMaps]

MkPod(qos, start, owners) ==
    [Namespace |-> "default", QOSClass |-> qos, StartTime |-> start,
     OwnerReferences |-> owners, PriorityClassName |-> "",
     Annotations |-> NoAnnotations]

\* the pods that pod lists of more than one pod are made of
SomePods ==
    {MkPod("Burstable", <<Ago(3600)>>, <<"ReplicaSet">>),
     MkPod("BestEffort", <<Ago(3600)>>, <<"ReplicaSet">>),
     MkPod("Guaranteed", <<Ago(3600)>>, <<"ReplicaSet">>),
     MkPod("Guaranteed", <<Ago(3600)>>, <<"DaemonSet">>),
     MkPod("Burstable", <<Ago(1)>>, <<"ReplicaSet">>),
     MkPod("Burstable", <<Ago(3600)>>, <<"Job">>)}

RECURSIVE ListsOf(_, _)
ListsOf(P, n) ==
    IF n = 0 THEN {<<>>}
    ELSE {Append(q, p) : q \in ListsOf(P, n - 1), p \in P}

PodLists ==
    {<<p>> : p \in AllPods} \cup UNION {ListsOf(SomePods, n) : n \in 0..MaxPods}

-----------------------------------------------------------------------------
(* PodCandidateSet *)

Len_(cs) == Len(cs)

Less_OrEqual(cs, i, j) == cs[i].Score <= cs[j].Score

Less(cs, i, j) == cs[i].Score < cs[j].Score

Swap(cs, i, j) == [cs EXCEPT ![i] = cs[j], ![j] = cs[i]]

PodCandidateSetFromPodList(l) == [i \in 1..Len(l) |-> [Pod |-> i, Score |-> 0]]

QOSDelta(pod) ==
    CASE pod.QOSClass = "BestEffort" -> BonusDelta
      [] pod.QOSClass = "Burstable" -> BonusDelta
      [] OTHER -> 0

scoreByQOSClass_Assign(cs) ==
    [i \in DOMAIN cs |-> [cs[i] EXCEPT !.Score = QOSDelta(items[cs[i].Pod])]]

scoreByQOSClass(cs) ==
    [i \in DOMAIN cs |-> [cs[i] EXCEPT !.Score = @ + QOSDelta(items[cs[i].Pod])]]

\* the age in whole seconds that scoreByAge takes the logarithm of
AgeOf(delta) ==
    LET age == DivSecond(delta)
    IN  IF SecLess(age, [k |-> 0, s |-> 1]) THEN [k |-> 0, s |-> 1] ELSE age

AgeVetoed(pod, min, t) ==
    \/ pod.StartTime = <<>>
    \/ DLess(Sub(t, pod.StartTime[1]), min)

AgeDelta(pod, min, t) ==
    IF pod.StartTime = <<>> THEN -VetoDelta
    ELSE LET delta == Sub(t, pod.StartTime[1])
         IN  IF DLess(delta, min) THEN -VetoDelta
             ELSE Log1pFloor(AgeOf(delta))

scoreByAge(cs, min, t) ==
    [i \in DOMAIN cs |-> [cs[i] EXCEPT !.Score = @ + AgeDelta(items[cs[i].Pod], min, t)]]

RECURSIVE OwnerKindsDelta(_)
OwnerKindsDelta(refs) ==
    IF refs = <<>> THEN 0
    ELSE (CASE Head(refs) = "ReplicaSet" -> BonusDelta
            [] Head(refs) = "StatefulSet" -> -VetoDelta
            [] Head(refs) = "DaemonSet" -> -VetoDelta
            [] OTHER -> 0)
         + OwnerKindsDelta(Tail(refs))

OwnerDelta_NoPenalty(pod) == OwnerKindsDelta(pod.OwnerReferences)

OwnerDelta(pod) ==
    (IF Len(pod.OwnerReferences) = 0 THEN -NoOwnerDelta ELSE 0)
    + OwnerKindsDelta(pod.OwnerReferences)

scoreByOwnerType(cs) ==
    [i \in DOMAIN cs |-> [cs[i] EXCEPT !.Score = @ + OwnerDelta(items[cs[i].Pod])]]

CriticalityDelta(pod) ==
    (IF pod.Namespace = "kube-system" THEN -VetoDelta ELSE 0)
    + (CASE pod.PriorityClassName = "system-cluster-critical" -> -VetoDelta
         [] pod.PriorityClassName = "system-node-critical" -> -VetoDelta
         [] OTHER -> 0)
    + (IF CriticalPodAnnotation \in DOMAIN pod.Annotations THEN -VetoDelta ELSE 0)

scoreByCriticality(cs) ==
    [i \in DOMAIN cs |-> [cs[i] EXCEPT !.Score = @ + CriticalityDelta(items[cs[i].Pod])]]

ReverseLess_Forward(cs, i, j) == Less(cs, i, j)

\* sort.Reverse(s).Less(i, j)
ReverseLess(cs, i, j) == Less(cs, j, i)

\* sort.Stable on at most 20 elements is one insertion sort:
\*   for i := a + 1; i < b; i++ { for j := i; j > a && Less(j, j-1); j-- { Swap(j, j-1) } }
RECURSIVE InsertDown(_, _)
InsertDown(cs, j) ==
    IF j > 1 /\ ReverseLess(cs, j, j - 1)
    THEN InsertDown(Swap(cs, j, j - 1), j - 1)
    ELSE cs

RECURSIVE InsertionSort(_, _)
InsertionSort(cs, i) ==
    IF i > Len_(cs) THEN cs ELSE InsertionSort(InsertDown(cs, i), i + 1)

StableReverse(cs) == InsertionSort(cs, 2)

\* the scan of the sorted set for the first candidate with Score >= 0
RECURSIVE FirstNonNegative(_, _)
FirstNonNegative(cs, i) ==
    IF i > Len_(cs) THEN NilPod
    ELSE IF cs[i].Score < 0 THEN FirstNonNegative(cs, i + 1)
    ELSE cs[i].Pod

Scored(cs, min, t) ==
    scoreByCriticality(scoreByOwnerType(scoreByQOSClass(scoreByAge(cs, min, t))))

-----------------------------------------------------------------------------
(* Actions *)

\* The state after PodCandidateSetFromPodList(l), for a pod list l
Init ==
    \E l \in PodLists :
        /\ items = l
        /\ s = PodCandidateSetFromPodList(l)
        /\ now = Now0
        /\ minPodAge = Seconds(0)
        /\ result = NilPod
        /\ calls = 0
        /\ first = <<>>
        /\ sameArgs = TRUE
        /\ applied = <<>>
        /\ wReq = <<>>
        /\ fsErr = ""
        /\ watcher = <<>>
        /\ wErr = ""

SelectPodForEviction ==
    \E min \in MinPodAges, t \in Clock :
        /\ calls < MaxCalls
        /\ now' = t
        /\ minPodAge' = min
        /\ s' = StableReverse(Scored(s, min, t))
        /\ result' = FirstNonNegative(s', 1)
        /\ calls' = calls + 1
        /\ first' = IF calls = 0
                    THEN <<[now |-> t, min |-> min, result |-> result']>>
                    ELSE first
        /\ sameArgs' = (sameArgs /\ (calls = 0 \/ (first[1].now = t /\ first[1].min = min)))
        /\ UNCHANGED <<items, applied>>
        /\ UNCHANGED watchVars

Next == SelectPodForEviction

Spec == Init /\ [][Next]_vars

-----------------------------------------------------------------------------
(* The four scoring passes called one by one, each once, in any order *)

PassNames == {"age", "qos", "ownerType", "criticality"}

Range(q) == {q[i] : i \in DOMAIN q}

ApplyScoreByAge ==
    \E min \in MinPodAges, t \in Clock :
        /\ "age" \notin Range(applied)
        /\ now' = t
        /\ minPodAge' = min
        /\ s' = scoreByAge(s, min, t)
        /\ applied' = Append(applied, "age")
        /\ UNCHANGED <<items, result, calls, first, sameArgs>>
        /\ UNCHANGED watchVars

ApplyScoreByQOSClass ==
    /\ "qos" \notin Range(applied)
    /\ s' = scoreByQOSClass(s)
    /\ applied' = Append(applied, "qos")
    /\ UNCHANGED <<items, now, minPodAge, result, calls, first, sameArgs>>
    /\ UNCHANGED watchVars

ApplyScoreByOwnerType ==
    /\ "ownerType" \notin Range(applied)
    /\ s' = scoreByOwnerType(s)
    /\ applied' = Append(applied, "ownerType")
    /\ UNCHANGED <<items, now, minPodAge, result, calls, first, sameArgs>>
    /\ UNCHANGED watchVars

ApplyScoreByCriticality ==
    /\ "criticality" \notin Range(applied)
    /\ s' = scoreByCriticality(s)
    /\ applied' = Append(applied, "criticality")
    /\ UNCHANGED <<items, now, minPodAge, result, calls, first, sameArgs>>
    /\ UNCHANGED watchVars

NextPasses ==
    \/ ApplyScoreByAge
    \/ ApplyScoreByQOSClass
    \/ ApplyScoreByOwnerType
    \/ ApplyScoreByCriticality

SpecPasses == Init /\ [][NextPasses]_vars

-----------------------------------------------------------------------------
(* NewWatcher *)

Thresholds == 0..MaxThreshold

ThresholdOrDefault_Keep(t) == t

\* if pressureThreshold == 0 { pressureThreshold = 25 }
ThresholdOrDefault(t) == IF t = 0 THEN DefaultThreshold ELSE t

\* procfs.NewDefaultFS() succeeds ("") or fails with the error of the mount point
NewDefaultFSErrors == {"", "could not read /proc"}

NewWatcher ==
    \E t \in Thresholds, e \in NewDefaultFSErrors :
        /\ wReq' = <<t>>
        /\ fsErr' = e
        /\ IF e # ""
           THEN /\ watcher' = <<>>
                /\ wErr' = e
           ELSE /\ watcher' = <<[PressureThreshold |-> ThresholdOrDefault(t),
                                 TickerInterval |-> Seconds(TickerSeconds),
                                 proc |-> "/proc",
                                 isCurrentlyHigh |-> FALSE]>>
                /\ wErr' = ""
        /\ UNCHANGED selVars

InitWatcher == Init /\ items = <<>>

NextWatcher == NewWatcher

SpecWatcher == InitWatcher /\ [][NextWatcher]_vars

-----------------------------------------------------------------------------
(* Properties *)

PodOf(i) == items[s[i].Pod]

Critical(pod) ==
    \/ pod.Namespace = "kube-system"
    \/ pod.PriorityClassName \in {"system-cluster-critical", "system-node-critical"}
    \/ CriticalPodAnnotation \in DOMAIN pod.Annotations

HasOwnerKind(pod, kind) == \E j \in DOMAIN pod.OwnerReferences : pod.OwnerReferences[j] = kind

Least(S) == CHOOSE i \in S : \A j \in S : i <= j

\* C1: every SelectPodForEviction call returns the candidate of maximal final
\* score that is earliest in the order the set had when the call began, if that
\* maximal score is >= 0, and returns nil exactly when every final score is
\* negative (the empty set included).
C1_SelectsFirstMaximal ==
    [][calls' = calls + 1 =>
        LET final(p) == (CHOOSE c \in Range(s') : c.Pod = p).Score
            best == {i \in DOMAIN s :
                        \A j \in DOMAIN s : final(s[j].Pod) <= final(s[i].Pod)}
        IN  IF \A i \in DOMAIN s : final(s[i].Pod) < 0
            THEN result' = NilPod
            ELSE /\ result' # NilPod
                 /\ result' = s[Least(best)].Pod]_vars

\* C1 witness: a first call on three pods where the first input pod scores lower
\* and the second and third tie at the non-negative maximum; the second is returned.
C1_Witness ==
    /\ calls = 1
    /\ Len(s) = 3
    /\ s[1].Score = s[2].Score
    /\ s[3].Score < s[1].Score
    /\ s[1].Score >= 0
    /\ <<s[1].Pod, s[2].Pod, s[3].Pod>> = <<2, 3, 1>>
    /\ result = 2

\* C2: after a call, a candidate in kube-system, or of priority class
\* system-cluster-critical or system-node-critical, or with the critical-pod
\* annotation, has a negative score and is not the pod returned.
C2_CriticalNeverSelected ==
    calls = 1 =>
        \A i \in DOMAIN s :
            Critical(PodOf(i)) => (s[i].Score < 0 /\ result # s[i].Pod)

\* C3: the pod returned has a start time and an age of at least minPodAge.
C3_TooYoungNeverSelected ==
    (calls = 1 /\ result # NilPod) => ~AgeVetoed(items[result], minPodAge, now)

\* C4: after a call, a candidate with a StatefulSet or DaemonSet owner reference
\* has a negative score and is not the pod returned, whatever its other owners.
C4_StatefulOrDaemonNeverSelected ==
    calls = 1 =>
        \A i \in DOMAIN s :
            (HasOwnerKind(PodOf(i), "StatefulSet") \/ HasOwnerKind(PodOf(i), "DaemonSet"))
                => (s[i].Score < 0 /\ result # s[i].Pod)

\* C5: after any number of calls, a candidate with no owner reference has a
\* negative score and is not the pod returned.
C5_UnownedNeverSelected ==
    calls >= 1 =>
        \A i \in DOMAIN s :
            Len(PodOf(i).OwnerReferences) = 0
                => (s[i].Score < 0 /\ result # s[i].Pod)

\* C5 witness: an unowned, non-critical Burstable pod of the largest representable
\* age after one call: -1000 + 100 + 22.
C5_Witness ==
    /\ calls = 1
    /\ \E i \in DOMAIN s :
          /\ Len(PodOf(i).OwnerReferences) = 0
          /\ ~Critical(PodOf(i))
          /\ PodOf(i).QOSClass = "Burstable"
          /\ PodOf(i).StartTime = <<ZeroTime>>
          /\ s[i].Score = -878
    /\ result = NilPod

\* C6: the pod returned has no owner reference of kind Job.
C6_JobNeverSelected ==
    (calls >= 1 /\ result # NilPod) => ~HasOwnerKind(items[result], "Job")

\* C7: NewWatcher returns the error of procfs.NewDefaultFS and no Watcher when
\* that fails; otherwise no error and a Watcher with the requested threshold
\* (25 when 0 was requested), a 15 second TickerInterval and isCurrentlyHigh false.
C7_NewWatcherOutcomes ==
    wReq # <<>> =>
        IF fsErr # ""
        THEN wErr = fsErr /\ watcher = <<>>
        ELSE /\ wErr = ""
             /\ Len(watcher) = 1
             /\ watcher[1].PressureThreshold = (IF wReq[1] = 0 THEN 25 ELSE wReq[1])
             /\ watcher[1].TickerInterval = [ks |-> 0, ms |-> 15000]
             /\ watcher[1].isCurrentlyHigh = FALSE

\* C7 witness: NewWatcher(0) with procfs available.
C7_Witness ==
    /\ wReq = <<0>>
    /\ fsErr = ""
    /\ wErr = ""
    /\ Len(watcher) = 1
    /\ watcher[1].PressureThreshold = 25

\* C8: after scoreByAge alone, an eligible candidate has a score of about 20 at
\* an age of 1 s, 24 at 60 s, 28 at 3600 s, and between about 20 and 40 always.
C8_AgeDeltaTable ==
    applied = <<"age">> =>
        \A i \in DOMAIN s :
            ~AgeVetoed(PodOf(i), minPodAge, now) =>
                LET age == AgeOf(Sub(now, PodOf(i).StartTime[1]))
                IN  /\ s[i].Score \in 19..41
                    /\ age = [k |-> 0, s |-> 1] => s[i].Score \in 19..21
                    /\ age = [k |-> 0, s |-> 60] => s[i].Score \in 23..25
                    /\ age = [k |-> 3, s |-> 600] => s[i].Score \in 27..29

\* C9: once the four passes have each been applied once, in whatever order, the
\* candidate set is the one the order age, QoS, owner type, criticality gives.
C9_PassesCommute ==
    Len(applied) = 4 =>
        s = Scored(PodCandidateSetFromPodList(items), minPodAge, now)

\* C9 witness: the passes applied in the reverse of SelectPodForEviction's order
\* to a pod that every pass changes the score of.
C9_Witness ==
    /\ applied = <<"criticality", "ownerType", "qos", "age">>
    /\ \E i \in DOMAIN s :
          /\ AgeDelta(PodOf(i), minPodAge, now) > 0
          /\ QOSDelta(PodOf(i)) # 0
          /\ OwnerDelta(PodOf(i)) # 0
          /\ CriticalityDelta(PodOf(i)) # 0

\* C10: while every call on a set reads the same clock and gets the same
\* minPodAge, each call adds the same deltas again (the score after n calls is n
\* times the score after one) and returns what the first call returned.
C10_RepeatedCallSameResult ==
    (calls >= 1 /\ sameArgs) =>
        /\ result = first[1].result
        /\ LET once == Scored(PodCandidateSetFromPodList(items), first[1].min, first[1].now)
           IN  \A i \in DOMAIN s : s[i].Score = calls * once[s[i].Pod].Score

\* C10 witness: a second call with the arguments of the first on a set the first
\* call reordered, with a tie at the top.
C10_Witness ==
    /\ calls = 2
    /\ sameArgs
    /\ Len(s) = 3
    /\ <<s[1].Pod, s[2].Pod, s[3].Pod>> = <<2, 3, 1>>
    /\ s[1].Score = s[2].Score
    /\ s[1].Score > 0
    /\ result = 2
    /\ first[1].result = 2

====
